---- MODULE Spec2Model ----
(***************************************************************************)
(* Robohub: robots, their parts and their maintenance logs, kept in a      *)
(* relational store and served by the request handlers of src/main.py.     *)
(*                                                                         *)
(* Spec      every handler is one atomic step (one worker: the handlers    *)
(*           are coroutines that never await, so a worker runs each to     *)
(*           its end before it starts the next).                           *)
(* SpecConc  several workers, each with its own session; the handlers      *)
(*           that load, change and commit are split at their statements    *)
(*           and the store is READ COMMITTED.                              *)
(*                                                                         *)
(* The store enforces the constraints the table models declare (keys,      *)
(* unique, foreign keys, NOT NULL). Columns that no handler tests and no   *)
(* constraint names are left out: created_at, last_checked, description,   *)
(* log_date, done_by; so are the VARCHAR lengths, whose violation takes    *)
(* the same path as any other statement the store refuses.                 *)
(***************************************************************************)
EXTENDS Integers, FiniteSets, Sequences, TLC

\* ---------------------------------------------------------------- bounds
MaxRobots == 2      \* values the robots.id sequence may hand out
MaxParts == 1       \* part ids the store may assign under one robot
MaxLogs == 2        \* values the maintenance_logs.id sequence may hand out

\* Python None / SQL NULL in an integer column (ids and quantities are >= 1)
None == 0
\* Python None / SQL NULL in a string column
NULL == "NULL"

RobotIds == 1..MaxRobots
PartIds == 1..MaxParts
LogIds == 1..MaxLogs
Names == {"a", "b"}
Types == {"t"}
PartNames == {"w"}
Quantities == {1, 2}

VARIABLES
    robots,             \* table robots: id -> [name, type]
    parts,              \* table parts: <<robot_id, id>> -> [name, quantity]
    maintenance_logs,   \* table maintenance_logs: id -> [robot_id, parts_id]
    robots_id_seq,      \* last value of the robots.id sequence
    logs_id_seq,        \* last value of the maintenance_logs.id sequence
    resp,               \* the last request served and its response
    sess                \* SpecConc: each worker's session

tables == <<robots, parts, maintenance_logs>>
vars == <<robots, parts, maintenance_logs, robots_id_seq, logs_id_seq, resp, sess>>

\* ------------------------------------------------------ transfer shapes
\* A body is the model's fields plus the set of fields the request gave
\* (pydantic's fields_set); a field not given holds its default, None.
create_update_robots ==
    { b \in [name : Names \cup {NULL}, type : Types \cup {NULL},
             fields_set : SUBSET {"name", "type"}] :
        /\ ("name" \notin b.fields_set => b.name = NULL)
        /\ ("type" \notin b.fields_set => b.type = NULL) }

create_update_parts ==
    { b \in [name : PartNames \cup {NULL}, quantity : Quantities \cup {None},
             fields_set : SUBSET {"name", "quantity"}] :
        /\ ("name" \notin b.fields_set => b.name = NULL)
        /\ ("quantity" \notin b.fields_set => b.quantity = None) }

create_maintenance_log == [parts_id : PartIds \cup {None}]

NoBody == [fields_set |-> {}]

\* body.model_dump(exclude_unset=True): the fields the request gave
model_dump_exclude_unset(body) == body.fields_set

\* ------------------------------------------------------------ the schema
\* robots.name: unique=True (NULLs are distinct to a unique index)
UniqueNameDropped(rs) == TRUE
robots_name_unique(rs) ==
    \A i, j \in DOMAIN rs : (i # j /\ rs[i].name # NULL) => rs[i].name # rs[j].name

\* parts.robot_id: ForeignKey("robots.id")
parts_robot_id_fkey(rs, ps) == \A k \in DOMAIN ps : k[1] \in DOMAIN rs

\* parts.quantity: int, not Optional, so the column is NOT NULL
parts_quantity_not_null(ps) == \A k \in DOMAIN ps : ps[k].quantity # None

\* maintenance_logs: ForeignKeyConstraint(["robot_id"], ["robots.id"])
LogRobotFkeyDropped(rs, ls) == TRUE
logs_robot_id_fkey(rs, ls) == \A l \in DOMAIN ls : ls[l].robot_id \in DOMAIN rs

\* maintenance_logs: ForeignKeyConstraint(["robot_id", "parts_id"],
\* ["parts.robot_id", "parts.id"]); MATCH SIMPLE, so a NULL parts_id passes
LogPartFkeyOnIdOnly(ps, ls) ==
    \A l \in DOMAIN ls :
        ls[l].parts_id # None => \E k \in DOMAIN ps : k[2] = ls[l].parts_id
logs_parts_fkey(ps, ls) ==
    \A l \in DOMAIN ls :
        ls[l].parts_id # None => <<ls[l].robot_id, ls[l].parts_id>> \in DOMAIN ps

\* what the store accepts: a statement that would break a constraint raises
ConstraintsHold(rs, ps, ls) ==
    /\ robots_name_unique(rs)
    /\ parts_robot_id_fkey(rs, ps)
    /\ parts_quantity_not_null(ps)
    /\ logs_robot_id_fkey(rs, ls)
    /\ logs_parts_fkey(ps, ls)

\* ------------------------------------------------------------- helpers
Drop(f, ks) == [k \in DOMAIN f \ ks |-> f[k]]
Put(f, k, v) == [x \in DOMAIN f \cup {k} |-> IF x = k THEN v ELSE f[x]]

robot_row(rs, i) == [id |-> i, name |-> rs[i].name, type |-> rs[i].type]
part_row(ps, k) ==
    [robot_id |-> k[1], id |-> k[2], name |-> ps[k].name, quantity |-> ps[k].quantity]
\* the projection of get_robot_parts and get_part_of_robot: no robot_id
part_projection(ps, k) ==
    [id |-> k[2], name |-> ps[k].name, quantity |-> ps[k].quantity]
log_row(ls, l) == [id |-> l, robot_id |-> ls[l].robot_id, parts_id |-> ls[l].parts_id]
\* the projection of get_maintenance_logs_of_a_robot: no robot_id
log_projection(ls, l) == [id |-> l, parts_id |-> ls[l].parts_id]

\* a returned HTTPException is encoded as an ordinary 200 body
ReturnedException(code) == {[status_code |-> code]}

Response(op, robot_id, id, body, status, data) ==
    [op |-> op, robot_id |-> robot_id, id |-> id, body |-> body,
     status |-> status, data |-> data]

NoResponse == Response("none", None, None, NoBody, 0, {})

\* the worker is between two requests: a handler runs from its first line to
\* its return before the worker takes the next request
Idle == resp = NoResponse

Init ==
    /\ robots = <<>>
    /\ parts = <<>>
    /\ maintenance_logs = <<>>
    /\ robots_id_seq = 0
    /\ logs_id_seq = 0
    /\ resp = NoResponse
    /\ sess = <<>>

\* ------------------------------------------------------- robot handlers
get_all_robots ==
    /\ Idle
    /\ resp' = Response("get_all_robots", None, None, NoBody, 200,
                        {robot_row(robots, i) : i \in DOMAIN robots})
    /\ UNCHANGED <<tables, robots_id_seq, logs_id_seq, sess>>

\* line 119 returns the exception instead of raising it
get_specific_robot_missing(id) ==
    Response("get_specific_robot", id, None, NoBody, 200, ReturnedException(404))

get_specific_robot(id) ==
    /\ Idle
    /\ resp' = IF id \notin DOMAIN robots
               THEN get_specific_robot_missing(id)
               ELSE Response("get_specific_robot", id, None, NoBody, 200,
                             {robot_row(robots, id)})
    /\ UNCHANGED <<tables, robots_id_seq, logs_id_seq, sess>>

add_robot(body) ==
    /\ Idle
    /\ robots_id_seq < MaxRobots
    /\ LET id == robots_id_seq + 1
           rs == Put(robots, id, [name |-> body.name, type |-> body.type])
       IN  /\ robots_id_seq' = id       \* nextval is not rolled back
           /\ IF ConstraintsHold(rs, parts, maintenance_logs)
              THEN /\ robots' = rs
                   /\ resp' = Response("add_robot", None, None, body, 200,
                                       {robot_row(rs, id)})
              ELSE /\ robots' = robots
                   /\ resp' = Response("add_robot", None, None, body, 500, {})
    /\ UNCHANGED <<parts, maintenance_logs, logs_id_seq, sess>>

\* The UPDATE a flush emits sets the attributes whose value differs from the
\* value the session loaded; an attribute set to the value it was loaded
\* with is no change and is left out of the statement.
flush_update(current, loaded, body) ==
    [f \in DOMAIN current |->
        IF f \in body.fields_set /\ body[f] # loaded[f] THEN body[f] ELSE current[f]]

update_robot(id, body) ==
    /\ Idle
    /\ IF id \notin DOMAIN robots
       THEN /\ resp' = Response("update_robot", id, None, body, 404, {})
            /\ robots' = robots
       ELSE IF model_dump_exclude_unset(body) = {}
       THEN /\ resp' = Response("update_robot", id, None, body, 400, {})
            /\ robots' = robots
       ELSE LET rs == Put(robots, id, flush_update(robots[id], robots[id], body))
                ok == ConstraintsHold(rs, parts, maintenance_logs)
            IN  /\ robots' = IF ok THEN rs ELSE robots
                \* lines 140-146: commit, roll back on any exception, refresh,
                \* return the row
                /\ resp' = Response("update_robot", id, None, body, 200,
                                    {robot_row(robots', id)})
    /\ UNCHANGED <<parts, maintenance_logs, robots_id_seq, logs_id_seq, sess>>

logs_of(ls, robot_id) == {l \in DOMAIN ls : ls[l].robot_id = robot_id}
parts_of(ps, robot_id) == {k \in DOMAIN ps : k[1] = robot_id}

\* line 152 returns the exception instead of raising it
delete_robot_missing(id) ==
    Response("delete_robot", id, None, NoBody, 200, ReturnedException(404))

\* The statements of delete_robot in the order the session emits them:
\* DELETE the logs selected, DELETE the parts selected, DELETE the robot;
\* each is checked against the constraints as it runs. The result is the
\* store the transaction would commit, or "raise".
delete_robot_statements(rs, ps, ls, id, log_ids, part_keys) ==
    LET ls1 == Drop(ls, log_ids)
        ps1 == Drop(ps, part_keys)
        rs1 == Drop(rs, {id})
    IN  IF /\ ConstraintsHold(rs, ps, ls1)
           /\ ConstraintsHold(rs, ps1, ls1)
           /\ ConstraintsHold(rs1, ps1, ls1)
        THEN [ok |-> TRUE, robots |-> rs1, parts |-> ps1, logs |-> ls1]
        ELSE [ok |-> FALSE, robots |-> rs, parts |-> ps, logs |-> ls]

delete_robot(id) ==
    /\ Idle
    /\ IF id \notin DOMAIN robots
       THEN /\ resp' = delete_robot_missing(id)
            /\ UNCHANGED tables
       ELSE LET r == delete_robot_statements(robots, parts, maintenance_logs, id,
                        logs_of(maintenance_logs, id), parts_of(parts, id))
            IN  /\ robots' = r.robots
                /\ parts' = r.parts
                /\ maintenance_logs' = r.logs
                /\ resp' = Response("delete_robot", id, None, NoBody,
                                    IF r.ok THEN 204 ELSE 500, {})
    /\ UNCHANGED <<robots_id_seq, logs_id_seq, sess>>

\* -------------------------------------------------------- part handlers
get_robot_parts(robot_id) ==
    /\ Idle
    /\ resp' = IF robot_id \notin DOMAIN robots
               THEN Response("get_robot_parts", robot_id, None, NoBody, 404, {})
               ELSE Response("get_robot_parts", robot_id, None, NoBody, 200,
                        {part_projection(parts, k) : k \in parts_of(parts, robot_id)})
    /\ UNCHANGED <<tables, robots_id_seq, logs_id_seq, sess>>

get_part_of_robot(robot_id, id) ==
    /\ Idle
    /\ resp' = IF robot_id \notin DOMAIN robots
               THEN Response("get_part_of_robot", robot_id, id, NoBody, 404, {})
               ELSE IF <<robot_id, id>> \notin DOMAIN parts
               THEN Response("get_part_of_robot", robot_id, id, NoBody, 404, {})
               ELSE Response("get_part_of_robot", robot_id, id, NoBody, 200,
                             {part_projection(parts, <<robot_id, id>>)})
    /\ UNCHANGED <<tables, robots_id_seq, logs_id_seq, sess>>

\* lines 198-200: the robot must exist
AddPartSkipsCheck(rs, robot_id) == FALSE
add_part_robot_missing(rs, robot_id) == robot_id \notin DOMAIN rs

\* line 201: parts(robot_id=robot_id, **body.model_dump()); a None quantity
\* is left out of the INSERT and the column default, 1, is stored
new_part(body) ==
    [name |-> body.name,
     quantity |-> IF body.quantity = None THEN 1 ELSE body.quantity]

\* The handler gives the part no id: the store assigns new_id, or has no
\* value for it (None), and the INSERT raises on a key that is NULL or taken.
add_part_in_a_robot(robot_id, body, new_id) ==
    /\ Idle
    /\ IF add_part_robot_missing(robots, robot_id)
       THEN /\ resp' = Response("add_part_in_a_robot", robot_id, None, body, 404, {})
            /\ parts' = parts
       ELSE LET k == <<robot_id, new_id>>
                ps == Put(parts, k, new_part(body))
            IN  IF /\ new_id # None
                   /\ k \notin DOMAIN parts
                   /\ ConstraintsHold(robots, ps, maintenance_logs)
                THEN /\ parts' = ps
                     /\ resp' = Response("add_part_in_a_robot", robot_id, None, body, 200,
                                    {[name |-> ps[k].name, quantity |-> ps[k].quantity]})
                ELSE /\ parts' = parts
                     /\ resp' = Response("add_part_in_a_robot", robot_id, None, body, 500, {})
    /\ UNCHANGED <<robots, maintenance_logs, robots_id_seq, logs_id_seq, sess>>

\* line 222: an empty update of a part is answered 404 (a robot's: 400)
update_part_no_fields == 404

update_part(robot_id, id, body) ==
    /\ Idle
    /\ LET k == <<robot_id, id>>
       IN  IF k \notin DOMAIN parts
           THEN /\ resp' = Response("update_part", robot_id, id, body, 404, {})
                /\ parts' = parts
           ELSE IF model_dump_exclude_unset(body) = {}
           THEN /\ resp' = Response("update_part", robot_id, id, body,
                                    update_part_no_fields, {})
                /\ parts' = parts
           ELSE LET ps == Put(parts, k, flush_update(parts[k], parts[k], body))
                    ok == ConstraintsHold(robots, ps, maintenance_logs)
                IN  /\ parts' = IF ok THEN ps ELSE parts
                    /\ resp' = Response("update_part", robot_id, id, body, 200,
                                        {part_row(parts', k)})
    /\ UNCHANGED <<robots, maintenance_logs, robots_id_seq, logs_id_seq, sess>>

delete_part(robot_id, id) ==
    /\ Idle
    /\ LET k == <<robot_id, id>>
       IN  IF robot_id \notin DOMAIN robots
           THEN /\ resp' = Response("delete_part", robot_id, id, NoBody, 404, {})
                /\ parts' = parts
           ELSE IF k \notin DOMAIN parts
           THEN /\ resp' = Response("delete_part", robot_id, id, NoBody, 404, {})
                /\ parts' = parts
           ELSE LET ps == Drop(parts, {k})
                IN  IF ConstraintsHold(robots, ps, maintenance_logs)
                    THEN /\ parts' = ps
                         /\ resp' = Response("delete_part", robot_id, id, NoBody, 204, {})
                    ELSE /\ parts' = parts
                         /\ resp' = Response("delete_part", robot_id, id, NoBody, 500, {})
    /\ UNCHANGED <<robots, maintenance_logs, robots_id_seq, logs_id_seq, sess>>

\* --------------------------------------------- maintenance log handlers
get_maintenance_logs ==
    /\ Idle
    /\ resp' = Response("get_maintenance_logs", None, None, NoBody, 200,
                   {log_row(maintenance_logs, l) : l \in DOMAIN maintenance_logs})
    /\ UNCHANGED <<tables, robots_id_seq, logs_id_seq, sess>>

get_maintenance_log(id) ==
    /\ Idle
    /\ resp' = Response("get_maintenance_log", None, id, NoBody, 200,
                   IF id \in DOMAIN maintenance_logs
                   THEN {log_row(maintenance_logs, id)} ELSE {})
    /\ UNCHANGED <<tables, robots_id_seq, logs_id_seq, sess>>

\* lines 256-259: parts is True selects on robot_id alone, parts is False
\* adds parts_id == None
FilterInverted(ls, robot_id, with_parts) ==
    {l \in DOMAIN ls : /\ ls[l].robot_id = robot_id
                       /\ (with_parts => ls[l].parts_id = None)}
select_logs_of_a_robot(ls, robot_id, with_parts) ==
    {l \in DOMAIN ls : /\ ls[l].robot_id = robot_id
                       /\ (~with_parts => ls[l].parts_id = None)}

get_maintenance_logs_of_a_robot(robot_id, with_parts) ==
    /\ Idle
    /\ resp' = Response("get_maintenance_logs_of_a_robot", robot_id, None,
                   [fields_set |-> {}, parts |-> with_parts], 200,
                   {log_projection(maintenance_logs, l) :
                        l \in select_logs_of_a_robot(maintenance_logs, robot_id, with_parts)})
    /\ UNCHANGED <<tables, robots_id_seq, logs_id_seq, sess>>

add_maintenance_log(robot_id, body) ==
    /\ Idle
    /\ logs_id_seq < MaxLogs
    /\ LET id == logs_id_seq + 1
           ls == Put(maintenance_logs, id,
                     [robot_id |-> robot_id, parts_id |-> body.parts_id])
       IN  /\ logs_id_seq' = id         \* nextval is not rolled back
           /\ IF ConstraintsHold(robots, parts, ls)
              THEN /\ maintenance_logs' = ls
                   /\ resp' = Response("add_maintenance_log", robot_id, None, body, 200,
                                       {log_row(ls, id)})
              ELSE /\ maintenance_logs' = maintenance_logs
                   /\ resp' = Response("add_maintenance_log", robot_id, None, body, 500, {})
    /\ UNCHANGED <<robots, parts, robots_id_seq, sess>>

\* ------------------------------------------------- one worker: Spec
\* the response leaves the handler and the worker takes the next request
send_response ==
    /\ resp # NoResponse
    /\ resp' = NoResponse
    /\ UNCHANGED <<tables, robots_id_seq, logs_id_seq, sess>>

Next ==
    \/ get_all_robots
    \/ \E id \in RobotIds : get_specific_robot(id)
    \/ \E body \in create_update_robots : add_robot(body)
    \/ \E id \in RobotIds, body \in create_update_robots : update_robot(id, body)
    \/ \E id \in RobotIds : delete_robot(id)
    \/ \E robot_id \in RobotIds : get_robot_parts(robot_id)
    \/ \E robot_id \in RobotIds, id \in PartIds : get_part_of_robot(robot_id, id)
    \/ \E robot_id \in RobotIds, body \in create_update_parts, new_id \in PartIds \cup {None} :
            add_part_in_a_robot(robot_id, body, new_id)
    \/ \E robot_id \in RobotIds, id \in PartIds, body \in create_update_parts :
            update_part(robot_id, id, body)
    \/ \E robot_id \in RobotIds, id \in PartIds : delete_part(robot_id, id)
    \/ get_maintenance_logs
    \/ \E id \in LogIds : get_maintenance_log(id)
    \/ \E robot_id \in RobotIds, with_parts \in BOOLEAN :
            get_maintenance_logs_of_a_robot(robot_id, with_parts)
    \/ \E robot_id \in RobotIds, body \in create_maintenance_log :
            add_maintenance_log(robot_id, body)
    \/ send_response

Spec == Init /\ [][Next]_vars

\* ---------------------------------------------- several workers: SpecConc
\* Each worker serves one request with a session of its own (lines 98-100).
\* A statement reads and writes the committed tables; what a session has
\* deleted and not yet committed (log_ids once flushed) stays in the tables,
\* locked, until the session commits or rolls back. A commit() that emits
\* its statements and commits is one step: the row locks it takes make it
\* serial against every other statement on those rows.
Workers == {"w1", "w2"}

NoRow == [missing |-> TRUE]

Session(pc, op, robot_id, id, body, loaded, log_ids, part_keys, seq, status) ==
    [pc |-> pc, op |-> op, robot_id |-> robot_id, id |-> id, body |-> body,
     loaded |-> loaded, log_ids |-> log_ids, part_keys |-> part_keys,
     seq |-> seq, status |-> status]

IdleSession == Session("idle", "none", None, None, NoBody, NoRow, {}, {}, 0, 0)

\* the request is answered and its session closed
Done(s, status) == [s EXCEPT !.pc = "done", !.status = status]

\* the order in which requests were answered: 1 for the first
answered == Cardinality({w \in DOMAIN sess : sess[w].pc = "done"})

\* Stores the handlers of Spec build from the empty store: robot 1 "a" and
\* robot 2 "b", any of their first parts, and at most one log.
SeedRobots == [i \in 1..2 |-> [name |-> IF i = 1 THEN "a" ELSE "b", type |-> "t"]]
SeedPart == [name |-> "w", quantity |-> 1]
SeedStores ==
    { st \in [parts : UNION {[K -> {SeedPart}] :
                                K \in SUBSET {<<1, 1>>, <<2, 1>>}},
              logs : UNION {[L -> [robot_id : 1..2, parts_id : {None, 1}]] :
                                L \in {{}, {1}}}] :
        logs_parts_fkey(st.parts, st.logs) }

InitConc ==
    /\ robots = SeedRobots
    /\ robots_id_seq = Cardinality(DOMAIN SeedRobots)
    /\ \E st \in SeedStores :
        /\ parts = st.parts
        /\ maintenance_logs = st.logs
        /\ logs_id_seq = Cardinality(DOMAIN st.logs)
    /\ resp = NoResponse
    /\ sess = [w \in Workers |-> IdleSession]

\* update_robot, lines 132-139: load, refuse, set the attributes
update_robot_load(w, id, body) ==
    /\ sess[w].pc = "idle"
    /\ LET s == Session("update_robot", "update_robot", id, None, body,
                        NoRow, {}, {}, 0, 0)
       IN  sess' = [sess EXCEPT ![w] =
                IF id \notin DOMAIN robots THEN [Done(s, 404) EXCEPT !.seq = answered + 1]
                ELSE IF model_dump_exclude_unset(body) = {}
                THEN [Done(s, 400) EXCEPT !.seq = answered + 1]
                ELSE [s EXCEPT !.loaded = robots[id]]]
    /\ UNCHANGED <<tables, robots_id_seq, logs_id_seq, resp>>

\* update_robot, lines 140-146: commit, roll back on any exception, refresh.
\* An UPDATE that finds its row gone raises, and so does the refresh.
update_robot_commit(w) ==
    /\ sess[w].pc = "update_robot"
    /\ LET s == sess[w]
           id == s.robot_id
       IN  IF id \notin DOMAIN robots
           THEN /\ robots' = robots
                /\ sess' = [sess EXCEPT ![w] = [Done(s, 500) EXCEPT !.seq = answered + 1]]
           ELSE LET rs == Put(robots, id, flush_update(robots[id], s.loaded, s.body))
                    ok == ConstraintsHold(rs, parts, maintenance_logs)
                IN  /\ robots' = IF ok THEN rs ELSE robots
                    /\ sess' = [sess EXCEPT ![w] =
                            [Done(s, 200) EXCEPT !.seq = answered + 1,
                                                 !.loaded = robots'[id]]]
    /\ UNCHANGED <<parts, maintenance_logs, robots_id_seq, logs_id_seq, resp>>

\* update_part, lines 217-224
update_part_load(w, robot_id, id, body) ==
    /\ sess[w].pc = "idle"
    /\ LET s == Session("update_part", "update_part", robot_id, id, body,
                        NoRow, {}, {}, 0, 0)
           k == <<robot_id, id>>
       IN  sess' = [sess EXCEPT ![w] =
                IF k \notin DOMAIN parts THEN [Done(s, 404) EXCEPT !.seq = answered + 1]
                ELSE IF model_dump_exclude_unset(body) = {}
                THEN [Done(s, update_part_no_fields) EXCEPT !.seq = answered + 1]
                ELSE [s EXCEPT !.loaded = parts[k]]]
    /\ UNCHANGED <<tables, robots_id_seq, logs_id_seq, resp>>

\* update_part, lines 225-230
update_part_commit(w) ==
    /\ sess[w].pc = "update_part"
    /\ LET s == sess[w]
           k == <<s.robot_id, s.id>>
       IN  IF k \notin DOMAIN parts
           THEN /\ parts' = parts
                /\ sess' = [sess EXCEPT ![w] = [Done(s, 500) EXCEPT !.seq = answered + 1]]
           ELSE LET ps == Put(parts, k, flush_update(parts[k], s.loaded, s.body))
                    ok == ConstraintsHold(robots, ps, maintenance_logs)
                IN  /\ parts' = IF ok THEN ps ELSE parts
                    /\ sess' = [sess EXCEPT ![w] =
                            [Done(s, 200) EXCEPT !.seq = answered + 1,
                                                 !.loaded = parts'[k]]]
    /\ UNCHANGED <<robots, maintenance_logs, robots_id_seq, logs_id_seq, resp>>

\* delete_robot, lines 150-152
delete_robot_get(w, id) ==
    /\ sess[w].pc = "idle"
    /\ LET s == Session("delete_select_logs", "delete_robot", id, None, NoBody,
                        NoRow, {}, {}, 0, 0)
       IN  sess' = [sess EXCEPT ![w] =
                IF id \notin DOMAIN robots
                THEN [Done(s, delete_robot_missing(id).status) EXCEPT !.seq = answered + 1]
                ELSE s]
    /\ UNCHANGED <<tables, robots_id_seq, logs_id_seq, resp>>

\* delete_robot, lines 153-155: the logs are selected and marked deleted
delete_robot_select_logs(w) ==
    /\ sess[w].pc = "delete_select_logs"
    /\ sess' = [sess EXCEPT ![w].pc = "delete_select_parts",
                            ![w].log_ids = logs_of(maintenance_logs, sess[w].robot_id)]
    /\ UNCHANGED <<tables, robots_id_seq, logs_id_seq, resp>>

\* the log rows other sessions have deleted and not yet committed
locked_logs(w) ==
    UNION {sess[v].log_ids \cap DOMAIN maintenance_logs :
             v \in {x \in Workers \ {w} : sess[x].pc = "delete_commit"}}

\* delete_robot, lines 156-158: the select autoflushes the DELETEs of the
\* logs inside the session's transaction (it waits for a row another
\* session holds), then the parts are selected and marked deleted
FlushAutocommits(w) ==
    /\ sess[w].pc = "delete_select_parts"
    /\ sess[w].log_ids \cap locked_logs(w) = {}
    /\ sess' = [sess EXCEPT ![w].pc = "delete_commit",
                            ![w].part_keys = parts_of(parts, sess[w].robot_id)]
    /\ maintenance_logs' = Drop(maintenance_logs, sess[w].log_ids)
    /\ UNCHANGED <<robots, parts, robots_id_seq, logs_id_seq, resp>>
delete_robot_select_parts(w) ==
    /\ sess[w].pc = "delete_select_parts"
    /\ sess[w].log_ids \cap locked_logs(w) = {}
    /\ sess' = [sess EXCEPT ![w].pc = "delete_commit",
                            ![w].part_keys = parts_of(parts, sess[w].robot_id)]
    /\ UNCHANGED <<tables, robots_id_seq, logs_id_seq, resp>>

\* delete_robot, lines 159-161: DELETE the parts, DELETE the robot, COMMIT;
\* a statement that raises ends the request and the session rolls back.
\* (Waiting for a log row another session holds is left to that session's
\* commit; the deadlock the store would break by aborting one of the two
\* leaves the tables as they are and is not modelled.)
delete_robot_commit(w) ==
    /\ sess[w].pc = "delete_commit"
    /\ logs_of(maintenance_logs, sess[w].robot_id) \cap locked_logs(w) = {}
    /\ LET s == sess[w]
           r == delete_robot_statements(robots, parts, maintenance_logs,
                                        s.robot_id, s.log_ids, s.part_keys)
       IN  /\ robots' = r.robots
           /\ parts' = r.parts
           /\ maintenance_logs' = r.logs
           /\ sess' = [sess EXCEPT ![w] =
                    [Done(s, IF r.ok THEN 204 ELSE 500) EXCEPT !.seq = answered + 1]]
    /\ UNCHANGED <<robots_id_seq, logs_id_seq, resp>>

\* add_part_in_a_robot, lines 198-200
add_part_get(w, robot_id, body) ==
    /\ sess[w].pc = "idle"
    /\ LET s == Session("add_part", "add_part_in_a_robot", robot_id, None, body,
                        NoRow, {}, {}, 0, 0)
       IN  sess' = [sess EXCEPT ![w] =
                IF add_part_robot_missing(robots, robot_id)
                THEN [Done(s, 404) EXCEPT !.seq = answered + 1]
                ELSE s]
    /\ UNCHANGED <<tables, robots_id_seq, logs_id_seq, resp>>

\* add_part_in_a_robot, lines 201-213: the INSERT of the flush, the commit
add_part_flush(w, new_id) ==
    /\ sess[w].pc = "add_part"
    /\ LET s == sess[w]
           k == <<s.robot_id, new_id>>
           ps == Put(parts, k, new_part(s.body))
           ok == /\ new_id # None
                 /\ k \notin DOMAIN parts
                 /\ ConstraintsHold(robots, ps, maintenance_logs)
       IN  /\ parts' = IF ok THEN ps ELSE parts
           /\ sess' = [sess EXCEPT ![w] =
                    [Done(s, IF ok THEN 200 ELSE 500) EXCEPT !.seq = answered + 1,
                                                             !.id = new_id]]
    /\ UNCHANGED <<robots, maintenance_logs, robots_id_seq, logs_id_seq, resp>>

\* add_maintenance_log, lines 273-277
add_maintenance_log_commit(w, robot_id, body) ==
    /\ sess[w].pc = "idle"
    /\ logs_id_seq < MaxLogs
    /\ LET s == Session("idle", "add_maintenance_log", robot_id, None, body,
                        NoRow, {}, {}, 0, 0)
           id == logs_id_seq + 1
           ls == Put(maintenance_logs, id,
                     [robot_id |-> robot_id, parts_id |-> body.parts_id])
           ok == ConstraintsHold(robots, parts, ls)
       IN  /\ logs_id_seq' = id
           /\ maintenance_logs' = IF ok THEN ls ELSE maintenance_logs
           /\ sess' = [sess EXCEPT ![w] =
                    [Done(s, IF ok THEN 200 ELSE 500) EXCEPT !.seq = answered + 1,
                                                             !.id = id]]
    /\ UNCHANGED <<robots, parts, robots_id_seq, resp>>

NextConc ==
    \E w \in Workers :
        \/ \E id \in RobotIds, body \in create_update_robots : update_robot_load(w, id, body)
        \/ update_robot_commit(w)
        \/ \E robot_id \in RobotIds, id \in PartIds, body \in create_update_parts :
                update_part_load(w, robot_id, id, body)
        \/ update_part_commit(w)
        \/ \E id \in RobotIds : delete_robot_get(w, id)
        \/ delete_robot_select_logs(w)
        \/ delete_robot_select_parts(w)
        \/ delete_robot_commit(w)
        \/ \E robot_id \in RobotIds, body \in create_update_parts : add_part_get(w, robot_id, body)
        \/ \E new_id \in PartIds \cup {None} : add_part_flush(w, new_id)
        \/ \E robot_id \in RobotIds, body \in create_maintenance_log :
                add_maintenance_log_commit(w, robot_id, body)

SpecConc == InitConc /\ [][NextConc]_vars

\* ================================================================ claims

\* C1: every part row and every maintenance-log row has the robot_id of an
\* existing robot row, and when delete robot has answered 204 for robot R,
\* R is gone and no part and no log with robot_id = R remains.
C1_NoOrphanRows ==
    /\ \A k \in DOMAIN parts : k[1] \in DOMAIN robots
    /\ \A l \in DOMAIN maintenance_logs : maintenance_logs[l].robot_id \in DOMAIN robots
    /\ (resp.op = "delete_robot" /\ resp.status = 204) =>
            /\ resp.robot_id \notin DOMAIN robots
            /\ \A k \in DOMAIN parts : k[1] # resp.robot_id
            /\ \A l \in DOMAIN maintenance_logs :
                    maintenance_logs[l].robot_id # resp.robot_id

\* a robot was deleted while another robot keeps its part and its log
C1_Witness ==
    /\ resp.op = "delete_robot" /\ resp.status = 204
    /\ parts # <<>>
    /\ maintenance_logs # <<>>
    /\ \E l \in DOMAIN maintenance_logs : maintenance_logs[l].parts_id # None

\* C2: create part under a robot_id with no robot row is answered not-found
\* (404) and leaves every table as it was.
C2_AddPartMissingRobot ==
    [][(resp'.op = "add_part_in_a_robot" /\ resp'.robot_id \notin DOMAIN robots)
            => (resp'.status = 404 /\ UNCHANGED tables)]_vars

\* create part was refused for a missing robot while parts of another exist
C2_Witness ==
    /\ resp.op = "add_part_in_a_robot"
    /\ resp.status = 404
    /\ resp.robot_id \notin DOMAIN robots
    /\ parts # <<>>

\* C3: create log under robot R with a non-null parts_id P is refused and
\* adds no log row whenever no part (R, P) exists, and in every state each
\* log with a non-null parts_id references an existing part of its own robot.
C3_LogPartOfSameRobot ==
    /\ [](\A l \in DOMAIN maintenance_logs :
            maintenance_logs[l].parts_id # None =>
                <<maintenance_logs[l].robot_id, maintenance_logs[l].parts_id>>
                    \in DOMAIN parts)
    /\ [][(/\ resp'.op = "add_maintenance_log"
           /\ resp'.body.parts_id # None
           /\ <<resp'.robot_id, resp'.body.parts_id>> \notin DOMAIN parts)
            => (resp'.status >= 400 /\ maintenance_logs' = maintenance_logs)]_vars

\* a log naming a part that only another robot owns was refused
C3_Witness ==
    /\ resp.op = "add_maintenance_log"
    /\ resp.status >= 400
    /\ resp.robot_id \in DOMAIN robots
    /\ resp.body.parts_id # None
    /\ <<resp.robot_id, resp.body.parts_id>> \notin DOMAIN parts
    /\ \E k \in DOMAIN parts : k[2] = resp.body.parts_id /\ k[1] # resp.robot_id

\* C4: an update whose body sets no field is refused with the same error
\* kind for an existing robot and for an existing part.
C4_EmptyUpdateSameKind ==
    \A v, w \in Workers :
        (/\ sess[v].pc = "done" /\ sess[v].op = "update_robot"
         /\ sess[v].body.fields_set = {}
         /\ sess[v].robot_id \in DOMAIN robots
         /\ sess[w].pc = "done" /\ sess[w].op = "update_part"
         /\ sess[w].body.fields_set = {}
         /\ <<sess[w].robot_id, sess[w].id>> \in DOMAIN parts)
        => (/\ sess[v].status >= 400
            /\ sess[w].status >= 400
            /\ sess[v].status = sess[w].status)

\* C5: list logs for robot R answers, with parts = false, exactly the logs
\* of R whose parts_id is null and, with parts = true, exactly all logs of
\* R; it returns no log of another robot and changes no row.
C5_LogsOfRobotFilter ==
    [][resp'.op = "get_maintenance_logs_of_a_robot" =>
        /\ UNCHANGED tables
        /\ \A l \in DOMAIN maintenance_logs :
            ([id |-> l, parts_id |-> maintenance_logs[l].parts_id] \in resp'.data)
                <=> (/\ maintenance_logs[l].robot_id = resp'.robot_id
                     /\ (resp'.body.parts \/ maintenance_logs[l].parts_id = None))
        /\ \A d \in resp'.data : d.id \in DOMAIN maintenance_logs]_vars

\* parts = false left out the part-scoped log of a robot and kept the other
C5_Witness ==
    /\ resp.op = "get_maintenance_logs_of_a_robot"
    /\ resp.body.parts = FALSE
    /\ Cardinality(resp.data) = 1
    /\ \E l \in DOMAIN maintenance_logs :
            /\ maintenance_logs[l].robot_id = resp.robot_id
            /\ maintenance_logs[l].parts_id # None

\* C6: get robot, update robot and delete robot on an id with no robot row
\* each answer not-found (404) and leave the store unchanged.
C6_MissingRobotNotFound ==
    [][(/\ resp'.op \in {"get_specific_robot", "update_robot", "delete_robot"}
        /\ resp'.robot_id \notin DOMAIN robots)
            => (resp'.status = 404 /\ UNCHANGED tables)]_vars

\* C7: delete part (R, P), with robot R and part (R, P) present, answers 204
\* and removes exactly that part row, whatever logs reference it, and every
\* log with a non-null parts_id still references a part of its own robot.
C7_DeletePartRemovesRow ==
    [][(/\ resp'.op = "delete_part"
        /\ resp'.robot_id \in DOMAIN robots
        /\ <<resp'.robot_id, resp'.id>> \in DOMAIN parts)
            => (/\ resp'.status = 204
                /\ parts' = Drop(parts, {<<resp'.robot_id, resp'.id>>})
                /\ robots' = robots
                /\ \A l \in DOMAIN maintenance_logs' :
                        maintenance_logs'[l].parts_id # None =>
                            <<maintenance_logs'[l].robot_id, maintenance_logs'[l].parts_id>>
                                \in DOMAIN parts')]_vars

\* C8: no two robot rows share a name, and an update robot that sets name to
\* a value another robot holds leaves every row unchanged and still answers
\* 200 with the unchanged row.
C8_UniqueNameSilentRollback ==
    /\ [](\A i, j \in DOMAIN robots :
            (i # j /\ robots[i].name = robots[j].name) => robots[i].name = NULL)
    /\ [][(/\ resp'.op = "update_robot"
           /\ resp'.robot_id \in DOMAIN robots
           /\ "name" \in resp'.body.fields_set
           /\ \E j \in DOMAIN robots \ {resp'.robot_id} :
                    robots[j].name = resp'.body.name /\ robots[j].name # NULL)
            => (/\ UNCHANGED tables
                /\ resp'.status = 200
                /\ resp'.data = {[id |-> resp'.robot_id,
                                  name |-> robots[resp'.robot_id].name,
                                  type |-> robots[resp'.robot_id].type]})]_vars

\* an update that asked for another robot's name, and for a new type with
\* it, was answered 200 and changed neither
C8_Witness ==
    /\ resp.op = "update_robot"
    /\ resp.status = 200
    /\ resp.robot_id \in DOMAIN robots
    /\ "name" \in resp.body.fields_set
    /\ \E j \in DOMAIN robots \ {resp.robot_id} :
            robots[j].name = resp.body.name /\ robots[j].name # NULL
    /\ "type" \in resp.body.fields_set
    /\ resp.body.type # robots[resp.robot_id].type

\* C9: delete robot is all-or-nothing among concurrent requests: no step
\* removes a log or a part of a robot whose row stays, a robot row that goes
\* leaves no part and no log behind, and a delete that fails changes nothing.
C9_DeleteAllOrNothing ==
    /\ [](/\ \A k \in DOMAIN parts : k[1] \in DOMAIN robots
          /\ \A l \in DOMAIN maintenance_logs :
                maintenance_logs[l].robot_id \in DOMAIN robots)
    /\ [][/\ \A R \in DOMAIN robots' :
                /\ parts_of(parts, R) \subseteq parts_of(parts', R)
                /\ logs_of(maintenance_logs, R) \subseteq logs_of(maintenance_logs', R)
          /\ \A w \in Workers :
                (/\ sess[w].pc # "done" /\ sess'[w].pc = "done"
                 /\ sess'[w].op = "delete_robot"
                 /\ sess'[w].status # 204)
                    => UNCHANGED tables]_vars

\* a delete that had flushed the DELETE of its logs failed at its commit,
\* and the logs are there
C9_Witness ==
    \E w \in Workers :
        /\ sess[w].pc = "done" /\ sess[w].op = "delete_robot"
        /\ sess[w].status = 500
        /\ sess[w].log_ids # {}
        /\ sess[w].part_keys # {}
        /\ sess[w].log_ids \subseteq DOMAIN maintenance_logs
        /\ sess[w].robot_id \in DOMAIN robots

\* the value a field holds after two updates, by who set it and who committed last
FieldLevelLastWriterWins(v, w, final, prior, fields) ==
    \A f \in fields :
        LET last == IF sess[v].seq > sess[w].seq THEN v ELSE w
            first == IF last = v THEN w ELSE v
        IN  final[f] = IF f \in sess[last].body.fields_set THEN sess[last].body[f]
                       ELSE IF f \in sess[first].body.fields_set THEN sess[first].body[f]
                       ELSE prior[f]

\* the store refuses neither statement of the update
StoreAccepts(w) ==
    /\ sess[w].op = "update_robot" =>
            \A j \in DOMAIN robots \ {sess[w].robot_id} :
                robots[j].name = NULL \/ robots[j].name # sess[w].body.name
    /\ sess[w].op = "update_part" =>
            ("quantity" \in sess[w].body.fields_set => sess[w].body.quantity # None)

\* C10: of two concurrent updates of one robot (or of one part), a field only
\* one set ends with that request's value, a field both set ends with the
\* value of the one that committed last, and a field neither set keeps the
\* value it had. Stated of the updates the store accepts (both answered 200,
\* neither asking for a name another robot holds or for a null quantity), so
\* that the silent rollback of C8 is not what decides it.
C10_FieldLevelLastWriterWins ==
    \A v, w \in Workers :
        (/\ v # w
         /\ sess[v].pc = "done" /\ sess[w].pc = "done"
         /\ sess[v].status = 200 /\ sess[w].status = 200
         /\ sess[v].op = sess[w].op
         /\ sess[v].robot_id = sess[w].robot_id
         /\ sess[v].id = sess[w].id
         /\ StoreAccepts(v) /\ StoreAccepts(w))
        => /\ sess[v].op = "update_robot" =>
                FieldLevelLastWriterWins(v, w, robots[sess[v].robot_id],
                    SeedRobots[sess[v].robot_id], {"name", "type"})
           /\ sess[v].op = "update_part" =>
                FieldLevelLastWriterWins(v, w, parts[<<sess[v].robot_id, sess[v].id>>],
                    SeedPart, {"name", "quantity"})

====
